---- MODULE Spec2Model ----
(***************************************************************************)
(* let_value (include/unifex/let_value.hpp): the operation state of the    *)
(* chaining combinator, its predecessor receiver, its successor receiver   *)
(* and its cleanup_ function pointer.                                      *)
(*                                                                         *)
(* One sender (pred_, func_) is connected twice.  The two operation states *)
(* differ only in when the predecessor completes: inside start() for the   *)
(* operation "inline", after start() has returned for "deferred".          *)
(***************************************************************************)
EXTENDS Integers, Sequences, FiniteSets, TLC

\* ------------------------------------------------------------------ bounds
NumShapes == 2      \* value-tuple shapes in the predecessor's value_types
MaxVal == 2         \* distinct payloads a value tuple may carry
MaxErr == 2         \* distinct errors a predecessor or successor may signal

Shapes == 1..NumShapes
Vals == 1..MaxVal
Errs == 1..MaxErr

\* std::current_exception() as delivered by the catch block of set_value;
\* the errors of the predecessor and of the successors are 1..MaxErr
ExceptionPtr == 0

Ops == {"inline", "deferred"}

\* ------------------------------------------------- objects and their storage
PredOpObj == <<"predOp_", 0>>
ValuesObj(s) == <<"values_", s>>
SuccOpObj(s) == <<"succOp_", s>>

\* the members of the anonymous union of _op::type
UnionObjs == {PredOpObj} \cup {SuccOpObj(s) : s \in Shapes}
Objs == UnionObjs \cup {ValuesObj(s) : s \in Shapes}

\* ----------------------------------------------------- cleanup_ and targets
Fn(name, s) == [fn |-> name, shape |-> s]
NullFn == Fn("nullptr", 0)
DeactivatePredOpFn == Fn("deactivatePredOp", 0)
DestructValuesFn(s) == Fn("destructValues", s)
DeactivateSuccOpAndDestructValuesFn(s) == Fn("deactivateSuccOpAndDestructValues", s)

CleanupFns ==
    {NullFn, DeactivatePredOpFn}
        \cup {DestructValuesFn(s) : s \in Shapes}
        \cup {DeactivateSuccOpAndDestructValuesFn(s) : s \in Shapes}

\* the destructor calls each cleanup function makes, in order
deactivatePredOp == <<PredOpObj>>

destructValues(s) == <<ValuesObj(s)>>

\* mutant: the value tuple is not destructed
deactivateSuccOpOnly(s) == <<SuccOpObj(s)>>

\* mutant: the value tuple is destructed before the successor operation
destructValuesAndDeactivateSuccOp(s) == <<ValuesObj(s), SuccOpObj(s)>>

deactivateSuccOpAndDestructValues(s) == <<SuccOpObj(s), ValuesObj(s)>>

\* calling through a function pointer: (*f)(&op)
Call(f) ==
    CASE f.fn = "deactivatePredOp" -> deactivatePredOp
      [] f.fn = "destructValues" -> destructValues(f.shape)
      [] f.fn = "deactivateSuccOpAndDestructValues" ->
            deactivateSuccOpAndDestructValues(f.shape)
      [] OTHER -> << >>

\* ---------------------------------------------------------------- signals
Signal(k, s, p) == [kind |-> k, shape |-> s, payload |-> p]

PredSignals ==
    {Signal("value", s, v) : s \in Shapes, v \in Vals}
        \cup {Signal("error", 0, e) : e \in Errs}
        \cup {Signal("done", 0, 0)}

NoValues == <<0, 0>>
NoSender == Signal("none", 0, 0)

\* the value a successor sends encodes the arguments its factory call received
Encode(s, v) == s * (MaxVal + 1) + v
ErrorOf(s, v) == 1 + ((s + v) % MaxErr)

VARIABLES
    pred_,       \* the sender's predecessor: the signal it completes with, and
                 \* whether copying its values throws
    func_,       \* the sender's factory: exception specification and behaviour
    traits,      \* sender_traits of the predecessor and of the successor type
                 \* of each value-tuple shape: sends_done and blocking
    queried,     \* the last result of the blocking(sender) query
    startPc,     \* per operation: the caller's op.start() frame
    predPc,      \* per operation: position in predecessor_receiver
    succPc,      \* per operation: position in successor_receiver
    succInline,  \* per operation: successor completed inside unifex::start(succOp)
    cleanup_,    \* per operation: _op::type::cleanup_
    exchanged,   \* per operation: the result of std::exchange(op.cleanup_, nullptr)
    values_,     \* per operation: <<shape, payload>> held by values_
    successor,   \* per operation: the sender returned by the factory
    succOp_,     \* per operation: the signal the connected successor will send
    ctorLog,     \* per operation: objects constructed, in order
    dtorLog,     \* per operation: objects destructed, in order
    funcCalls,   \* per operation: argument tuples func_ was invoked with
    received,    \* per operation: completions delivered to receiver_
    fault,       \* per operation: failed UNIFEX_ASSERT_CLEANUP / null call
    destroyed    \* per operation: ~type() has run

vars == <<pred_, func_, traits, queried, startPc, predPc, succPc, succInline, cleanup_, exchanged,
          values_, successor, succOp_, ctorLog, dtorLog, funcCalls, received,
          fault, destroyed>>

senderVars == <<pred_, func_, traits, queried>>

\* ---------------------------------------------------------------- helpers
Put(f, o, v) == [f EXCEPT ![o] = v]
Log(f, o, xs) == [f EXCEPT ![o] = @ \o xs]

Count(seq, x) == Cardinality({i \in DOMAIN seq : seq[i] = x})

\* objects whose lifetime has begun and not ended
Live(o) == {x \in Objs : Count(ctorLog[o], x) > Count(dtorLog[o], x)}

Completion(k, p) == [kind |-> k, payload |-> p]

\* UNIFEX_ASSERT_CLEANUP(cond): a failed assertion is recorded, execution goes on
UNIFEX_ASSERT_CLEANUP(o, cond) ==
    fault' = IF cond THEN fault ELSE Put(fault, o, "assert")

\* a call through cleanup function pointer f: its destructor calls are logged;
\* a call through nullptr is recorded as a fault
Invoke(o, f) ==
    /\ dtorLog' = Log(dtorLog, o, Call(f))
    /\ fault' = IF f = NullFn THEN Put(fault, o, "nullcall") ELSE fault

\* the receiver's set_value / set_error / set_done
Deliver(o, c) == received' = Log(received, o, <<c>>)

\* Values... of the set_value instantiation the predecessor calls
ValuesShape == pred_.signal.shape

\* the if constexpr condition of set_value: successor construction may throw
MayThrow == ~func_.nothrowConnectable \/ ~func_.noexcept

\* std::apply(std::move(op.func_), valueTuple): the successor sender func_ returns
Factory(args) ==
    CASE func_.kind = "value" -> Signal("value", 0, Encode(args[1], args[2]))
      [] func_.kind = "error" -> Signal("error", 0, ErrorOf(args[1], args[2]))
      [] OTHER -> Signal("done", 0, 0)

\* ------------------------------------------------------------------- Init
Senders ==
    {p \in [signal : PredSignals, copyThrows : BOOLEAN] :
        p.copyThrows => p.signal.kind = "value"}

Factories ==
    {f \in [noexcept : BOOLEAN, throws : BOOLEAN, nothrowConnectable : BOOLEAN,
            connectThrows : BOOLEAN, kind : {"value", "error", "done"}] :
        /\ f.throws => ~f.noexcept
        /\ f.connectThrows => ~f.nothrowConnectable}

\* ------------------------------------------------ sender_traits of _sender
\* blocking_kind (unifex/blocking.hpp), in the order of its enumerators
maybe == 0
never == 1
always == 2
always_inline == 3

BlockingKinds == {maybe, never, always, always_inline}

\* std::max / std::min on blocking_kind
Max(a, b) == IF a >= b THEN a ELSE b
Min(a, b) == IF a <= b THEN a ELSE b

\* max_blocking_kind<Successors...>: *std::max_element over the successors
max_blocking_kind(succ) ==
    CHOOSE k \in {succ[s] : s \in Shapes} : \A s \in Shapes : k >= succ[s]

\* std::max(pred, std::min(successor_types<max_blocking_kind>{}(), maybe))
blocking(pred, succ) == Max(pred, Min(max_blocking_kind(succ), maybe))

\* mutant: only the predecessor's sends_done is consulted
sends_done_of_predecessor(t) == t.predSendsDone

\* _sender::type::sends_done
sends_done(t) == t.predSendsDone \/ \E s \in Shapes : t.succSendsDone[s]

\* traits that promise nothing: may send done, blocking_kind::maybe
UnconstrainedTraits ==
    [predSendsDone |-> TRUE,
     succSendsDone |-> [s \in Shapes |-> TRUE],
     predBlocking |-> maybe,
     succBlocking |-> [s \in Shapes |-> maybe]]

NotQueried == [asked |-> FALSE, pred |-> maybe, result |-> maybe]

\* each operation as its constructor leaves it; the operations in D have
\* been destroyed by the caller without being started
OpInitExcept(D) ==
    /\ startPc = [o \in Ops |-> "idle"]
    /\ predPc = [o \in Ops |-> "connected"]
    /\ succPc = [o \in Ops |-> "none"]
    /\ succInline = [o \in Ops |-> FALSE]
    /\ cleanup_ = [o \in Ops |-> DeactivatePredOpFn]
    /\ exchanged = [o \in Ops |-> NullFn]
    /\ values_ = [o \in Ops |-> NoValues]
    /\ successor = [o \in Ops |-> NoSender]
    /\ succOp_ = [o \in Ops |-> NoSender]
    /\ ctorLog = [o \in Ops |-> <<PredOpObj>>]
    /\ dtorLog = [o \in Ops |-> IF o \in D THEN Call(DeactivatePredOpFn)
                                            ELSE << >>]
    /\ funcCalls = [o \in Ops |-> << >>]
    /\ received = [o \in Ops |-> << >>]
    /\ fault = [o \in Ops |-> "none"]
    /\ destroyed = [o \in Ops |-> o \in D]

OpInit == OpInitExcept({})

\* the state after connect(sender, receiver) has constructed each operation
Init ==
    /\ pred_ \in Senders
    /\ func_ \in Factories
    /\ traits = UnconstrainedTraits
    /\ queried = NotQueried
    /\ OpInit

\* ------------------------------------------------------- _op::type::start
start(o) ==
    /\ startPc[o] = "idle"
    /\ ~destroyed[o]
    /\ startPc' = Put(startPc, o, "active")
    /\ predPc' = Put(predPc, o, "started")
    /\ UNCHANGED <<senderVars, succPc, succInline, cleanup_, exchanged, values_,
                   successor, succOp_, ctorLog, dtorLog, funcCalls, received,
                   fault, destroyed>>

\* mutant: cleanup_ is initialised after unifex::start(predOp_.get()) returns
start_return_sets_cleanup(o) ==
    /\ startPc[o] = "active"
    /\ IF o = "inline" THEN predPc[o] = "returned" ELSE predPc[o] = "started"
    /\ startPc' = Put(startPc, o, "returned")
    /\ cleanup_' = IF destroyed[o] THEN cleanup_
                   ELSE Put(cleanup_, o, DeactivatePredOpFn)
    /\ UNCHANGED <<senderVars, predPc, succPc, succInline, exchanged, values_,
                   successor, succOp_, ctorLog, dtorLog, funcCalls, received,
                   fault, destroyed>>

\* start() returns to its caller: for "inline" after the predecessor's
\* completion call has returned, for "deferred" before the predecessor completes
start_return(o) ==
    /\ startPc[o] = "active"
    /\ IF o = "inline" THEN predPc[o] = "returned" ELSE predPc[o] = "started"
    /\ startPc' = Put(startPc, o, "returned")
    /\ UNCHANGED <<senderVars, predPc, succPc, succInline, cleanup_, exchanged,
                   values_, successor, succOp_, ctorLog, dtorLog, funcCalls,
                   received, fault, destroyed>>

\* the predecessor operation is running and about to complete
PredCompletes(o, kind) ==
    /\ predPc[o] = "started"
    /\ startPc[o] = IF o = "inline" THEN "active" ELSE "returned"
    /\ pred_.signal.kind = kind

\* mutant: cancellation reported through the error channel
set_done_as_error(o) ==
    /\ PredCompletes(o, "done")
    /\ UNIFEX_ASSERT_CLEANUP(o, cleanup_[o] = DeactivatePredOpFn)
    /\ Deliver(o, Completion("error", ExceptionPtr))
    /\ predPc' = Put(predPc, o, "forwarded")
    /\ UNCHANGED <<senderVars, startPc, succPc, succInline, cleanup_,
                   exchanged, values_, successor, succOp_, ctorLog, dtorLog,
                   funcCalls, destroyed>>

\* --------------------------------------- _predecessor_receiver::type::set_done
predecessor_receiver_set_done(o) ==
    /\ PredCompletes(o, "done")
    /\ UNIFEX_ASSERT_CLEANUP(o, cleanup_[o] = DeactivatePredOpFn)
    /\ Deliver(o, Completion("done", 0))
    /\ predPc' = Put(predPc, o, "forwarded")
    /\ UNCHANGED <<senderVars, startPc, succPc, succInline, cleanup_,
                   exchanged, values_, successor, succOp_, ctorLog, dtorLog,
                   funcCalls, destroyed>>

\* mutant: set_error deactivates predOp_ before forwarding
set_error_deactivates_pred(o) ==
    /\ PredCompletes(o, "error")
    /\ dtorLog' = Log(dtorLog, o, deactivatePredOp)
    /\ UNIFEX_ASSERT_CLEANUP(o, cleanup_[o] = DeactivatePredOpFn)
    /\ Deliver(o, Completion("error", pred_.signal.payload))
    /\ predPc' = Put(predPc, o, "forwarded")
    /\ UNCHANGED <<senderVars, startPc, succPc, succInline, cleanup_,
                   exchanged, values_, successor, succOp_, ctorLog, funcCalls,
                   destroyed>>

\* mutant: the error is replaced by std::current_exception()
set_error_as_current_exception(o) ==
    /\ PredCompletes(o, "error")
    /\ UNIFEX_ASSERT_CLEANUP(o, cleanup_[o] = DeactivatePredOpFn)
    /\ Deliver(o, Completion("error", ExceptionPtr))
    /\ predPc' = Put(predPc, o, "forwarded")
    /\ UNCHANGED <<senderVars, startPc, succPc, succInline, cleanup_,
                   exchanged, values_, successor, succOp_, ctorLog, dtorLog,
                   funcCalls, destroyed>>

\* -------------------------------------- _predecessor_receiver::type::set_error
predecessor_receiver_set_error(o) ==
    /\ PredCompletes(o, "error")
    /\ UNIFEX_ASSERT_CLEANUP(o, cleanup_[o] = DeactivatePredOpFn)
    /\ Deliver(o, Completion("error", pred_.signal.payload))
    /\ predPc' = Put(predPc, o, "forwarded")
    /\ UNCHANGED <<senderVars, startPc, succPc, succInline, cleanup_,
                   exchanged, values_, successor, succOp_, ctorLog, dtorLog,
                   funcCalls, destroyed>>

\* mutant: cleanup_ already names destructValues while the tuple is constructed
set_value_construct_guarded_early(o) ==
    /\ PredCompletes(o, "value")
    /\ UNIFEX_ASSERT_CLEANUP(o, cleanup_[o] = DeactivatePredOpFn)
    /\ cleanup_' = Put(cleanup_, o, DestructValuesFn(ValuesShape))
    /\ IF pred_.copyThrows
         THEN /\ predPc' = Put(predPc, o, "catch")
              /\ UNCHANGED <<values_, ctorLog>>
         ELSE /\ values_' = Put(values_, o, <<ValuesShape, pred_.signal.payload>>)
              /\ ctorLog' = Log(ctorLog, o, <<ValuesObj(ValuesShape)>>)
              /\ predPc' = Put(predPc, o, "constructed")
    /\ UNCHANGED <<senderVars, startPc, succPc, succInline, exchanged,
                   successor, succOp_, dtorLog, funcCalls, received, destroyed>>

\* -------------------------------------- _predecessor_receiver::type::set_value
\* op.values_.construct<decayed_tuple<Values...>>(values...): throws, or
\* begins the lifetime of the value tuple holding a copy of the values
set_value_construct(o) ==
    /\ PredCompletes(o, "value")
    /\ UNIFEX_ASSERT_CLEANUP(o, cleanup_[o] = DeactivatePredOpFn)
    /\ IF pred_.copyThrows
         THEN /\ predPc' = Put(predPc, o, "catch")
              /\ UNCHANGED <<values_, ctorLog>>
         ELSE /\ values_' = Put(values_, o, <<ValuesShape, pred_.signal.payload>>)
              /\ ctorLog' = Log(ctorLog, o, <<ValuesObj(ValuesShape)>>)
              /\ predPc' = Put(predPc, o, "constructed")
    /\ UNCHANGED <<senderVars, startPc, succPc, succInline, cleanup_,
                   exchanged, successor, succOp_, dtorLog, funcCalls, received,
                   destroyed>>

\* mutant: cleanup_ is read, not exchanged: no null marker is left
set_value_exchange_keeps_cleanup(o) ==
    /\ predPc[o] = "constructed"
    /\ exchanged' = Put(exchanged, o, cleanup_[o])
    /\ predPc' = Put(predPc, o, "exchanged")
    /\ UNCHANGED <<senderVars, startPc, succPc, succInline, cleanup_, values_,
                   successor, succOp_, ctorLog, dtorLog, funcCalls, received,
                   fault, destroyed>>

\* mutant: destructValues is installed before the predecessor operation is
\* destroyed
set_value_exchange_to_values_only(o) ==
    /\ predPc[o] = "constructed"
    /\ exchanged' = Put(exchanged, o, cleanup_[o])
    /\ cleanup_' = Put(cleanup_, o,
           IF MayThrow THEN DestructValuesFn(ValuesShape) ELSE NullFn)
    /\ predPc' = Put(predPc, o, "exchanged")
    /\ UNCHANGED <<senderVars, startPc, succPc, succInline, values_, successor,
                   succOp_, ctorLog, dtorLog, funcCalls, received, fault,
                   destroyed>>

\* std::exchange(op.cleanup_, nullptr): the old pointer is the callee of the
\* call expression, evaluated before the call
set_value_exchange(o) ==
    /\ predPc[o] = "constructed"
    /\ exchanged' = Put(exchanged, o, cleanup_[o])
    /\ cleanup_' = Put(cleanup_, o, NullFn)
    /\ predPc' = Put(predPc, o, "exchanged")
    /\ UNCHANGED <<senderVars, startPc, succPc, succInline, values_, successor,
                   succOp_, ctorLog, dtorLog, funcCalls, received, fault,
                   destroyed>>

\* mutant: the exchanged cleanup function is dropped, predOp_ is not destroyed
set_value_retire_skipped(o) ==
    /\ predPc[o] = "exchanged"
    /\ predPc' = Put(predPc, o, "retired")
    /\ UNCHANGED <<senderVars, startPc, succPc, succInline, cleanup_,
                   exchanged, values_, successor, succOp_, ctorLog, dtorLog,
                   funcCalls, received, fault, destroyed>>

\* (...)(&op): the exchanged cleanup function runs
set_value_retire(o) ==
    /\ predPc[o] = "exchanged"
    /\ Invoke(o, exchanged[o])
    /\ predPc' = Put(predPc, o, "retired")
    /\ UNCHANGED <<senderVars, startPc, succPc, succInline, cleanup_,
                   exchanged, values_, successor, succOp_, ctorLog, funcCalls,
                   received, destroyed>>

\* mutant: the if constexpr condition is inverted
set_value_guard_inverted(o) ==
    /\ predPc[o] = "retired"
    /\ cleanup_' = IF ~MayThrow
                     THEN Put(cleanup_, o, DestructValuesFn(ValuesShape))
                     ELSE cleanup_
    /\ predPc' = Put(predPc, o, "guarded")
    /\ UNCHANGED <<senderVars, startPc, succPc, succInline, exchanged, values_,
                   successor, succOp_, ctorLog, dtorLog, funcCalls, received,
                   fault, destroyed>>

\* if constexpr (successor construction may throw)
\*   op.cleanup_ = destructValues<Values...>
set_value_guard(o) ==
    /\ predPc[o] = "retired"
    /\ cleanup_' = IF MayThrow
                     THEN Put(cleanup_, o, DestructValuesFn(ValuesShape))
                     ELSE cleanup_
    /\ predPc' = Put(predPc, o, "guarded")
    /\ UNCHANGED <<senderVars, startPc, succPc, succInline, exchanged, values_,
                   successor, succOp_, ctorLog, dtorLog, funcCalls, received,
                   fault, destroyed>>

\* std::apply(std::move(op.func_), valueTuple)
set_value_apply(o) ==
    /\ predPc[o] = "guarded"
    /\ funcCalls' = Log(funcCalls, o, <<values_[o]>>)
    /\ IF func_.throws
         THEN /\ predPc' = Put(predPc, o, "catch")
              /\ UNCHANGED successor
         ELSE /\ successor' = Put(successor, o, Factory(values_[o]))
              /\ predPc' = Put(predPc, o, "applied")
    /\ UNCHANGED <<senderVars, startPc, succPc, succInline, cleanup_,
                   exchanged, values_, succOp_, ctorLog, dtorLog, received,
                   fault, destroyed>>

\* mutant: the successor is started as soon as it is connected, before
\* cleanup_ is updated
set_value_connect_and_start(o) ==
    /\ predPc[o] = "applied"
    /\ successor' = Put(successor, o, NoSender)
    /\ IF func_.connectThrows
         THEN /\ predPc' = Put(predPc, o, "catch")
              /\ UNCHANGED <<succOp_, ctorLog, succPc>>
         ELSE /\ succOp_' = Put(succOp_, o,
                      [successor[o] EXCEPT !.shape = ValuesShape])
              /\ ctorLog' = Log(ctorLog, o, <<SuccOpObj(ValuesShape)>>)
              /\ succPc' = Put(succPc, o, "started")
              /\ predPc' = Put(predPc, o, "activated")
    /\ UNCHANGED <<senderVars, startPc, succInline, cleanup_, exchanged,
                   values_, dtorLog, funcCalls, received, fault, destroyed>>

\* unifex::connect(sender, successor_receiver<Operation, Values...>{op}) as
\* the initialiser of activate_union_member_with<successor_operation>(succOp_)
set_value_connect(o) ==
    /\ predPc[o] = "applied"
    /\ successor' = Put(successor, o, NoSender)
    /\ IF func_.connectThrows
         THEN /\ predPc' = Put(predPc, o, "catch")
              /\ UNCHANGED <<succOp_, ctorLog>>
         ELSE /\ succOp_' = Put(succOp_, o,
                      [successor[o] EXCEPT !.shape = ValuesShape])
              /\ ctorLog' = Log(ctorLog, o, <<SuccOpObj(ValuesShape)>>)
              /\ predPc' = Put(predPc, o, "activated")
    /\ UNCHANGED <<senderVars, startPc, succPc, succInline, cleanup_,
                   exchanged, values_, dtorLog, funcCalls, received, fault,
                   destroyed>>

\* mutant: cleanup_ is not updated once succOp_ is constructed
set_value_commit_skipped(o) ==
    /\ predPc[o] = "activated"
    /\ predPc' = Put(predPc, o, "committed")
    /\ UNCHANGED <<senderVars, startPc, succPc, succInline, cleanup_,
                   exchanged, values_, successor, succOp_, ctorLog, dtorLog,
                   funcCalls, received, fault, destroyed>>

\* op.cleanup_ = deactivateSuccOpAndDestructValues<Values...>
set_value_commit(o) ==
    /\ predPc[o] = "activated"
    /\ cleanup_' = Put(cleanup_, o,
           DeactivateSuccOpAndDestructValuesFn(ValuesShape))
    /\ predPc' = Put(predPc, o, "committed")
    /\ UNCHANGED <<senderVars, startPc, succPc, succInline, exchanged, values_,
                   successor, succOp_, ctorLog, dtorLog, funcCalls, received,
                   fault, destroyed>>

\* mutant: starting the successor raises into the catch block
set_value_start_throws(o) ==
    /\ predPc[o] = "committed"
    /\ succPc' = Put(succPc, o, "started")
    /\ predPc' = Put(predPc, o, "catch")
    /\ UNCHANGED <<senderVars, startPc, succInline, cleanup_, exchanged,
                   values_, successor, succOp_, ctorLog, dtorLog, funcCalls,
                   received, fault, destroyed>>

\* unifex::start(succOp)
set_value_start(o) ==
    /\ predPc[o] = "committed"
    /\ succPc' = Put(succPc, o, "started")
    /\ predPc' = Put(predPc, o, "starting")
    /\ UNCHANGED <<senderVars, startPc, succInline, cleanup_, exchanged,
                   values_, successor, succOp_, ctorLog, dtorLog, funcCalls,
                   received, fault, destroyed>>

\* mutant: the catch block restores the default cleanup_
set_value_catch_resets_cleanup(o) ==
    /\ predPc[o] = "catch"
    /\ UNIFEX_ASSERT_CLEANUP(o, cleanup_[o] # NullFn)
    /\ cleanup_' = Put(cleanup_, o, DeactivatePredOpFn)
    /\ Deliver(o, Completion("error", ExceptionPtr))
    /\ predPc' = Put(predPc, o, "forwarded")
    /\ UNCHANGED <<senderVars, startPc, succPc, succInline, exchanged, values_,
                   successor, succOp_, ctorLog, dtorLog, funcCalls, destroyed>>

\* mutant: the catch block swallows the exception
set_value_catch_swallows(o) ==
    /\ predPc[o] = "catch"
    /\ UNIFEX_ASSERT_CLEANUP(o, cleanup_[o] # NullFn)
    /\ predPc' = Put(predPc, o, "forwarded")
    /\ UNCHANGED <<senderVars, startPc, succPc, succInline, cleanup_,
                   exchanged, values_, successor, succOp_, ctorLog, dtorLog,
                   funcCalls, received, destroyed>>

\* UNIFEX_CATCH(...): set_error(std::move(op.receiver_), current_exception())
set_value_catch(o) ==
    /\ predPc[o] = "catch"
    /\ UNIFEX_ASSERT_CLEANUP(o, cleanup_[o] # NullFn)
    /\ Deliver(o, Completion("error", ExceptionPtr))
    /\ predPc' = Put(predPc, o, "forwarded")
    /\ UNCHANGED <<senderVars, startPc, succPc, succInline, cleanup_,
                   exchanged, values_, successor, succOp_, ctorLog, dtorLog,
                   funcCalls, destroyed>>

\* the predecessor's completion call returns; a successor that completed
\* inside unifex::start(succOp) has returned before
predecessor_receiver_return(o) ==
    /\ predPc[o] \in {"forwarded", "starting"}
    /\ ~(succInline[o] /\ succPc[o] = "forwarded")
    /\ predPc' = Put(predPc, o, "returned")
    /\ UNCHANGED <<senderVars, startPc, succPc, succInline, cleanup_,
                   exchanged, values_, successor, succOp_, ctorLog, dtorLog,
                   funcCalls, received, fault, destroyed>>

\* ------------------------------------------- _successor_receiver::type
\* the successor operation is running and about to complete
SuccCompletes(o, kind) ==
    /\ succPc[o] = "started"
    /\ succOp_[o].kind = kind

\* expectedCleanup of successor_receiver<Operation, Values...>
expectedCleanup(o) == DeactivateSuccOpAndDestructValuesFn(succOp_[o].shape)

\* mutant: the successor's values are not forwarded
set_value_without_values(o) ==
    /\ SuccCompletes(o, "value")
    /\ UNIFEX_ASSERT_CLEANUP(o, cleanup_[o] = expectedCleanup(o))
    /\ Deliver(o, Completion("value", 0))
    /\ succInline' = Put(succInline, o, predPc[o] = "starting")
    /\ succPc' = Put(succPc, o, "forwarded")
    /\ UNCHANGED <<senderVars, startPc, predPc, cleanup_, exchanged, values_,
                   successor, succOp_, ctorLog, dtorLog, funcCalls, destroyed>>

successor_receiver_set_value(o) ==
    /\ SuccCompletes(o, "value")
    /\ UNIFEX_ASSERT_CLEANUP(o, cleanup_[o] = expectedCleanup(o))
    /\ Deliver(o, Completion("value", succOp_[o].payload))
    /\ succInline' = Put(succInline, o, predPc[o] = "starting")
    /\ succPc' = Put(succPc, o, "forwarded")
    /\ UNCHANGED <<senderVars, startPc, predPc, cleanup_, exchanged, values_,
                   successor, succOp_, ctorLog, dtorLog, funcCalls, destroyed>>

successor_receiver_set_done(o) ==
    /\ SuccCompletes(o, "done")
    /\ UNIFEX_ASSERT_CLEANUP(o, cleanup_[o] = expectedCleanup(o))
    /\ Deliver(o, Completion("done", 0))
    /\ succInline' = Put(succInline, o, predPc[o] = "starting")
    /\ succPc' = Put(succPc, o, "forwarded")
    /\ UNCHANGED <<senderVars, startPc, predPc, cleanup_, exchanged, values_,
                   successor, succOp_, ctorLog, dtorLog, funcCalls, destroyed>>

successor_receiver_set_error(o) ==
    /\ SuccCompletes(o, "error")
    /\ UNIFEX_ASSERT_CLEANUP(o, cleanup_[o] = expectedCleanup(o))
    /\ Deliver(o, Completion("error", succOp_[o].payload))
    /\ succInline' = Put(succInline, o, predPc[o] = "starting")
    /\ succPc' = Put(succPc, o, "forwarded")
    /\ UNCHANGED <<senderVars, startPc, predPc, cleanup_, exchanged, values_,
                   successor, succOp_, ctorLog, dtorLog, funcCalls, destroyed>>

\* mutant: the forwarder deactivates succOp_ after relaying the completion
successor_receiver_return_deactivates(o) ==
    /\ succPc[o] = "forwarded"
    /\ succPc' = Put(succPc, o, "returned")
    /\ IF destroyed[o]
         THEN UNCHANGED <<dtorLog, cleanup_>>
         ELSE /\ dtorLog' = Log(dtorLog, o, <<SuccOpObj(succOp_[o].shape)>>)
              /\ cleanup_' = Put(cleanup_, o, DestructValuesFn(succOp_[o].shape))
    /\ UNCHANGED <<senderVars, startPc, predPc, succInline, exchanged, values_,
                   successor, succOp_, ctorLog, funcCalls, received, fault,
                   destroyed>>

successor_receiver_return(o) ==
    /\ succPc[o] = "forwarded"
    /\ succPc' = Put(succPc, o, "returned")
    /\ UNCHANGED <<senderVars, startPc, predPc, succInline, cleanup_,
                   exchanged, values_, successor, succOp_, ctorLog, dtorLog,
                   funcCalls, received, fault, destroyed>>

\* ------------------------------------------------------- _op::type::~type
\* the caller may destroy an operation it never started, or one that has
\* completed (from inside the completion call or later)
MayDestroy(o) ==
    /\ ~destroyed[o]
    /\ startPc[o] = "idle" \/ received[o] # << >>

\* ~type() { cleanup_(this); }
destructor(o) ==
    /\ MayDestroy(o)
    /\ Invoke(o, cleanup_[o])
    /\ destroyed' = Put(destroyed, o, TRUE)
    /\ UNCHANGED <<senderVars, startPc, predPc, succPc, succInline, cleanup_,
                   exchanged, values_, successor, succOp_, ctorLog, funcCalls,
                   received>>

\* ----------------------------------- tag_invoke(tag_t<blocking>, sender)
\* the predecessor's runtime blocking_kind k combined with the static result
\* for the successors
blocking_query(k) ==
    /\ queried' = [asked |-> TRUE, pred |-> k,
                   result |-> Max(k, Min(max_blocking_kind(traits.succBlocking),
                                         maybe))]
    /\ UNCHANGED <<pred_, func_, traits, startPc, predPc, succPc, succInline,
                   cleanup_, exchanged, values_, successor, succOp_, ctorLog,
                   dtorLog, funcCalls, received, fault, destroyed>>

\* ------------------------------------------------------------------- Next
Step(o) ==
    \/ start(o)
    \/ start_return(o)
    \/ predecessor_receiver_set_done(o)
    \/ predecessor_receiver_set_error(o)
    \/ set_value_construct(o)
    \/ set_value_exchange(o)
    \/ set_value_retire(o)
    \/ set_value_guard(o)
    \/ set_value_apply(o)
    \/ set_value_connect(o)
    \/ set_value_commit(o)
    \/ set_value_start(o)
    \/ set_value_catch(o)
    \/ predecessor_receiver_return(o)
    \/ successor_receiver_set_value(o)
    \/ successor_receiver_set_done(o)
    \/ successor_receiver_set_error(o)
    \/ successor_receiver_return(o)
    \/ destructor(o)

Next == \E o \in Ops : Step(o)

\* both operation states of one sender run, interleaved
Spec == Init /\ [][Next]_vars

\* the steps the combinator and the two child operations take by themselves
\* once the operation is started: the predecessor completes, the handlers run
\* to their return, a started successor completes
Progress(o) ==
    \/ start_return(o)
    \/ predecessor_receiver_set_done(o)
    \/ predecessor_receiver_set_error(o)
    \/ set_value_construct(o)
    \/ set_value_exchange(o)
    \/ set_value_retire(o)
    \/ set_value_guard(o)
    \/ set_value_apply(o)
    \/ set_value_connect(o)
    \/ set_value_commit(o)
    \/ set_value_start(o)
    \/ set_value_catch(o)
    \/ predecessor_receiver_return(o)
    \/ successor_receiver_set_value(o)
    \/ successor_receiver_set_done(o)
    \/ successor_receiver_set_error(o)
    \/ successor_receiver_return(o)

\* one operation state of the sender runs, the other one was destroyed unstarted
InitLive ==
    /\ pred_ \in Senders
    /\ func_ \in Factories
    /\ traits = UnconstrainedTraits
    /\ queried = NotQueried
    /\ \E o \in Ops : OpInitExcept(Ops \ {o})

\* every started child operation eventually completes and no handler stalls;
\* whether the owner starts or destroys the operation state is left open
SpecLive == InitLive /\ [][Next]_vars /\ \A o \in Ops : WF_vars(Progress(o))

\* senders whose sends_done traits are sound: a sender that signals set_done
\* declares sends_done
SoundTraits ==
    {t \in [predSendsDone : BOOLEAN,
            succSendsDone : [Shapes -> BOOLEAN],
            predBlocking : {maybe},
            succBlocking : {[s \in Shapes |-> maybe]}] :
        /\ pred_.signal.kind = "done" => t.predSendsDone
        /\ func_.kind = "done" => \A s \in Shapes : t.succSendsDone[s]}

InitSendsDone ==
    /\ pred_ \in Senders
    /\ func_ \in Factories
    /\ traits \in SoundTraits
    /\ queried = NotQueried
    /\ \E o \in Ops : OpInitExcept(Ops \ {o})

\* one operation state of a sender with any sound sends_done traits runs, the
\* other one was destroyed unstarted
SpecSendsDone == InitSendsDone /\ [][Next]_vars

InitBlocking ==
    /\ pred_ = [signal |-> Signal("done", 0, 0), copyThrows |-> FALSE]
    /\ func_ = [noexcept |-> TRUE, throws |-> FALSE, nothrowConnectable |-> TRUE,
                connectThrows |-> FALSE, kind |-> "done"]
    /\ traits \in [predSendsDone : {TRUE},
                   succSendsDone : {[s \in Shapes |-> TRUE]},
                   predBlocking : BlockingKinds,
                   succBlocking : [Shapes -> BlockingKinds]]
    /\ queried = NotQueried
    /\ OpInit

NextBlocking == \E k \in BlockingKinds : blocking_query(k)

\* the blocking calculus of a sender with any blocking traits
SpecBlocking == InitBlocking /\ [][NextBlocking]_vars

TypeOK ==
    /\ pred_ \in Senders
    /\ func_ \in Factories
    /\ traits.predBlocking \in BlockingKinds
    /\ traits.succBlocking \in [Shapes -> BlockingKinds]
    /\ traits.predSendsDone \in BOOLEAN
    /\ traits.succSendsDone \in [Shapes -> BOOLEAN]
    /\ queried.result \in BlockingKinds
    /\ startPc \in [Ops -> {"idle", "active", "returned"}]
    /\ predPc \in [Ops -> {"connected", "started", "constructed", "exchanged",
                           "retired", "guarded", "applied", "activated",
                           "committed", "starting", "catch", "forwarded",
                           "returned"}]
    /\ succPc \in [Ops -> {"none", "started", "forwarded", "returned"}]
    /\ succInline \in [Ops -> BOOLEAN]
    /\ cleanup_ \in [Ops -> CleanupFns]
    /\ exchanged \in [Ops -> CleanupFns]
    /\ \A o \in Ops : values_[o] \in {NoValues} \cup (Shapes \X Vals)
    /\ fault \in [Ops -> {"none", "assert", "nullcall"}]
    /\ destroyed \in [Ops -> BOOLEAN]
    /\ \A o \in Ops : Len(received[o]) <= 3 /\ Len(dtorLog[o]) <= 6

\* ================================================================ properties
Range(seq) == {seq[i] : i \in DOMAIN seq}

\* every occurrence of a precedes every occurrence of b in seq
Precedes(seq, a, b) ==
    \A i, j \in DOMAIN seq : (seq[i] = a /\ seq[j] = b) => i < j

PredHandlerDone(o) == predPc[o] \in {"forwarded", "returned"}
SuccForwarderDone(o) == succPc[o] \in {"forwarded", "returned"}

\* the argument tuple the predecessor's set_value call carries
PredValues == <<pred_.signal.shape, pred_.signal.payload>>

NoStepFails == ~pred_.copyThrows /\ ~func_.throws /\ ~func_.connectThrows
CopyFails == pred_.signal.kind = "value" /\ pred_.copyThrows
FactoryOrConnectFails ==
    /\ pred_.signal.kind = "value"
    /\ ~pred_.copyThrows
    /\ func_.throws \/ func_.connectThrows

UncaughtException == Completion("error", ExceptionPtr)

\* C1: when the predecessor signals set_done, the final receiver receives
\* set_done and nothing else, the factory is never invoked, no value tuple is
\* stored, and no successor operation is constructed or started.
C1_DoneBypassesFactory ==
    pred_.signal.kind = "done" =>
        \A o \in Ops :
            /\ received[o] \in {<< >>, <<Completion("done", 0)>>}
            /\ PredHandlerDone(o) => received[o] = <<Completion("done", 0)>>
            /\ funcCalls[o] = << >>
            /\ values_[o] = NoValues
            /\ ctorLog[o] = <<PredOpObj>>
            /\ succOp_[o] = NoSender
            /\ succPc[o] = "none"

C1_Witness ==
    /\ pred_.signal.kind = "done"
    /\ \E o \in Ops :
        /\ predPc[o] = "returned"
        /\ received[o] = <<Completion("done", 0)>>
        /\ destroyed[o]

\* C2: when the predecessor signals set_error(E), the final receiver receives
\* exactly the error E, and the factory is never invoked.
C2_ErrorForwardedVerbatim ==
    pred_.signal.kind = "error" =>
        \A o \in Ops :
            /\ received[o] \in
                   {<< >>, <<Completion("error", pred_.signal.payload)>>}
            /\ PredHandlerDone(o) =>
                   received[o] = <<Completion("error", pred_.signal.payload)>>
            /\ funcCalls[o] = << >>

C2_Witness ==
    /\ pred_.signal.kind = "error"
    /\ \E o \in Ops :
        /\ predPc[o] = "returned"
        /\ received[o] = <<Completion("error", pred_.signal.payload)>>
        /\ received[o] # <<UncaughtException>>
        /\ destroyed[o]

\* C3: when the predecessor signals set_value(V) and no construction step
\* fails, the factory is invoked exactly once, with the stored copy of V, and
\* the final receiver gets exactly the completion of the successor operation
\* connected from factory(V); the predecessor's values are never delivered.
C3_SuccessorOutcomeForwarded ==
    (pred_.signal.kind = "value" /\ NoStepFails) =>
        \A o \in Ops :
            /\ funcCalls[o] \in {<< >>, <<PredValues>>}
            /\ succOp_[o] # NoSender =>
                   /\ funcCalls[o] = <<PredValues>>
                   /\ succOp_[o] =
                          [Factory(PredValues) EXCEPT !.shape = ValuesShape]
            /\ received[o] \in
                   {<< >>,
                    <<Completion(succOp_[o].kind, succOp_[o].payload)>>}
            /\ received[o] # << >> => SuccForwarderDone(o)
            /\ SuccForwarderDone(o) => received[o] # << >>
            /\ Completion("value", pred_.signal.payload) \notin Range(received[o])

C3_Witness ==
    /\ pred_.signal.kind = "value"
    /\ NoStepFails
    /\ func_.kind = "value"
    /\ \E o \in Ops :
        /\ succPc[o] = "returned"
        /\ funcCalls[o] = <<PredValues>>
        /\ received[o] =
               <<Completion("value", Encode(PredValues[1], PredValues[2]))>>

\* C4: the final receiver of one operation state is notified at most once
\* over all paths, and the catch block of set_value is never entered once the
\* successor has been started.
C4_AtMostOneNotification ==
    \A o \in Ops :
        /\ Len(received[o]) <= 1
        /\ predPc[o] = "catch" => (succPc[o] = "none" /\ received[o] = << >>)

C4_Witness ==
    \E o \in Ops :
        /\ succInline[o]
        /\ succPc[o] = "returned"
        /\ predPc[o] = "returned"
        /\ Len(received[o]) = 1

\* C5: when copying the predecessor's values throws, the final receiver gets
\* exactly one error (the uncaught exception), cleanup_ stays deactivatePredOp,
\* destruction destroys the predecessor operation once and nothing else, and
\* the factory is not invoked.
C5_CopyFailure ==
    CopyFails =>
        \A o \in Ops :
            /\ received[o] \in {<< >>, <<UncaughtException>>}
            /\ PredHandlerDone(o) => received[o] = <<UncaughtException>>
            /\ cleanup_[o] = DeactivatePredOpFn
            /\ dtorLog[o] = IF destroyed[o] THEN <<PredOpObj>> ELSE << >>
            /\ ctorLog[o] = <<PredOpObj>>
            /\ funcCalls[o] = << >>

C5_Witness ==
    /\ CopyFails
    /\ \E o \in Ops :
        /\ received[o] = <<UncaughtException>>
        /\ destroyed[o]
        /\ dtorLog[o] = <<PredOpObj>>

\* C6: when the factory or connect throws, the final receiver gets exactly one
\* error (the uncaught exception), and destruction of the operation state
\* destroys only the value tuple, once: the predecessor operation, destroyed
\* during the handoff, is not destroyed again and no successor operation is
\* destroyed.
C6_FactoryOrConnectFailure ==
    FactoryOrConnectFails =>
        \A o \in Ops :
            /\ received[o] \in {<< >>, <<UncaughtException>>}
            /\ PredHandlerDone(o) => received[o] = <<UncaughtException>>
            /\ (destroyed[o] /\ received[o] # << >>) =>
                   dtorLog[o] = <<PredOpObj, ValuesObj(ValuesShape)>>
            /\ Count(dtorLog[o], PredOpObj) <= 1
            /\ \A s \in Shapes : SuccOpObj(s) \notin Range(dtorLog[o])

C6_Witness ==
    /\ FactoryOrConnectFails
    /\ func_.connectThrows
    /\ ~func_.throws
    /\ \E o \in Ops :
        /\ received[o] = <<UncaughtException>>
        /\ destroyed[o]
        /\ dtorLog[o] = <<PredOpObj, ValuesObj(ValuesShape)>>

\* the operation has completed and has been torn down
Finished(o) == destroyed[o] /\ received[o] # << >>

\* what a caller can observe of one run: the notifications of the final
\* receiver, the factory invocations, and the objects destroyed
Observed(o) ==
    [received |-> received[o],
     invocations |-> Len(funcCalls[o]),
     destroyedObjects |-> dtorLog[o]]

\* C7: wherever the operation state may be destroyed (never started, or at or
\* after a notification of the final receiver), cleanup_ destroys exactly the
\* live objects, each once; after destruction nothing is live and nothing was
\* destroyed twice; a never-started operation destroys only predOp_.
C7_CleanupMatchesLiveObjects ==
    \A o \in Ops :
        /\ MayDestroy(o) =>
               /\ cleanup_[o] # NullFn
               /\ Range(Call(cleanup_[o])) = Live(o)
               /\ \A x \in Objs : Count(Call(cleanup_[o]), x) <= 1
        /\ destroyed[o] =>
               /\ Live(o) = {}
               /\ \A x \in Objs : Count(dtorLog[o], x) = Count(ctorLog[o], x)
               /\ fault[o] # "nullcall"
        /\ (destroyed[o] /\ startPc[o] = "idle") => dtorLog[o] = <<PredOpObj>>

C7_Witness ==
    \E o \in Ops, s \in Shapes :
        /\ predPc[o] = "starting"
        /\ succPc[o] = "forwarded"
        /\ destroyed[o]
        /\ dtorLog[o] = <<PredOpObj, SuccOpObj(s), ValuesObj(s)>>

\* C8: for one sender, the run whose predecessor completes inside start() and
\* the run whose predecessor completes after start() has returned show the
\* same notification, the same number of factory invocations and the same
\* objects destroyed.
C8_InlineEqualsDeferred ==
    (Finished("inline") /\ Finished("deferred")) =>
        Observed("inline") = Observed("deferred")

C8_Witness ==
    /\ Finished("inline")
    /\ Finished("deferred")
    /\ startPc["inline"] = "returned"
    /\ predPc["deferred"] = "returned"
    /\ pred_.signal.kind = "value"
    /\ func_.connectThrows
    /\ ~func_.throws

\* C9: the anonymous union holds at most one live member: predOp_ and a
\* succOp_ member are never live together, at most one successor operation is
\* ever constructed, and only after predOp_ has been destroyed.
C9_UnionHoldsOneObject ==
    \A o \in Ops :
        /\ Cardinality(Live(o) \cap UnionObjs) <= 1
        /\ Cardinality({i \in DOMAIN ctorLog[o] :
               \E s \in Shapes : ctorLog[o][i] = SuccOpObj(s)}) <= 1
        /\ \A s \in Shapes :
               SuccOpObj(s) \in Range(ctorLog[o]) =>
                   PredOpObj \in Range(dtorLog[o])

C9_Witness ==
    \E o \in Ops, s \in Shapes :
        /\ Live(o) \cap UnionObjs = {SuccOpObj(s)}
        /\ ~destroyed[o]

\* C10: a live successor operation implies its value tuple is live; the tuple
\* is constructed before the factory is invoked and destroyed after its
\* successor operation; the tuple is live without a successor operation only
\* between storing the values and constructing the successor, or after a
\* factory/connect failure.
C10_ValuesOutliveSuccessor ==
    \A o \in Ops :
        /\ \A s \in Shapes :
               /\ SuccOpObj(s) \in Live(o) => ValuesObj(s) \in Live(o)
               /\ Precedes(dtorLog[o], SuccOpObj(s), ValuesObj(s))
               /\ Precedes(ctorLog[o], ValuesObj(s), SuccOpObj(s))
               /\ SuccOpObj(s) \in Range(ctorLog[o]) =>
                      ValuesObj(s) \in Range(ctorLog[o])
               /\ (ValuesObj(s) \in Live(o) /\ SuccOpObj(s) \notin Live(o)) =>
                      \/ predPc[o] \in {"constructed", "exchanged", "retired",
                                        "guarded", "applied"}
                      \/ /\ func_.throws \/ func_.connectThrows
                         /\ predPc[o] \in {"catch", "forwarded", "returned"}
        /\ funcCalls[o] # << >> =>
               \E s \in Shapes : ValuesObj(s) \in Range(ctorLog[o])

C10_Witness ==
    \E o \in Ops, s \in Shapes :
        /\ succPc[o] = "returned"
        /\ predPc[o] = "returned"
        /\ ~succInline[o]
        /\ dtorLog[o] = <<PredOpObj, SuccOpObj(s), ValuesObj(s)>>

\* the predecessor's completion call is on the stack
PredHandlerActive(o) ==
    predPc[o] \in {"constructed", "exchanged", "retired", "guarded", "applied",
                   "activated", "committed", "starting", "catch", "forwarded"}

\* the successor's completion call is on the stack
SuccForwarderActive(o) == succPc[o] = "forwarded"

\* C11 (as claimed): the predecessor's completion call and the successor's
\* completion call are never on the stack together for one operation state.
C11_NeverBothActive ==
    \A o \in Ops : ~(PredHandlerActive(o) /\ SuccForwarderActive(o))

\* C11 (amended): a completion call of the successor receiver begins only
\* after set_value has performed its last step, unifex::start(succOp); the
\* two calls overlap only when the successor completes inside that start,
\* and then the predecessor's call does nothing more than return.
C11_ForwarderAfterLastStep ==
    \A o \in Ops :
        /\ succPc[o] \in {"forwarded", "returned"} =>
               predPc[o] \in {"starting", "returned"}
        /\ (PredHandlerActive(o) /\ SuccForwarderActive(o)) =>
               (succInline[o] /\ predPc[o] = "starting")
        /\ (succPc[o] = "returned" /\ ~succInline[o]) => predPc[o] = "returned"

C11_Witness ==
    \E o \in Ops :
        /\ succInline[o]
        /\ predPc[o] = "starting"
        /\ succPc[o] = "forwarded"
        /\ received[o] # << >>

IsAlwaysSync(k) == k \in {always, always_inline}

\* C12: the static blocking classification max(predecessor, min(max over
\* successors, maybe)) is always or always_inline only if the predecessor and
\* every possible successor are; when some possible successor is not
\* always-synchronous, neither is the result.
C12_AlwaysOnlyIfAllAlways ==
    IsAlwaysSync(blocking(traits.predBlocking, traits.succBlocking)) =>
        /\ IsAlwaysSync(traits.predBlocking)
        /\ \A s \in Shapes : IsAlwaysSync(traits.succBlocking[s])

\* C13: sends_done is true iff the predecessor or some possible successor
\* can signal set_done; when it is false no run delivers set_done to the
\* final receiver.
C13_SendsDoneSoundAndExact ==
    /\ sends_done(traits) <=>
           (traits.predSendsDone \/ \E s \in Shapes : traits.succSendsDone[s])
    /\ ~sends_done(traits) =>
           \A o \in Ops : Completion("done", 0) \notin Range(received[o])
    /\ \A o \in Ops :
           Completion("done", 0) \in Range(received[o]) =>
               \/ pred_.signal.kind = "done" /\ traits.predSendsDone
               \/ /\ succOp_[o].kind = "done"
                  /\ traits.succSendsDone[succOp_[o].shape]

C13_Witness ==
    /\ ~sends_done(traits)
    /\ pred_.signal.kind = "value"
    /\ \E o \in Ops :
        /\ succPc[o] = "returned"
        /\ received[o] # << >>
        /\ destroyed[o]

\* C14: whenever the successor receiver gets a completion from the successor
\* built for value-tuple shape S, cleanup_ is
\* deactivateSuccOpAndDestructValues<S>: it is set before the successor is
\* started, so the receiver's assertion holds, also for a completion inside
\* start().
C14_ForwarderAssertionHolds ==
    \A o \in Ops :
        /\ succPc[o] # "none" =>
               /\ succOp_[o].shape = ValuesShape
               /\ cleanup_[o] =
                      DeactivateSuccOpAndDestructValuesFn(succOp_[o].shape)
        /\ SuccForwarderDone(o) => fault[o] = "none"

C14_Witness ==
    \E o \in Ops :
        /\ func_.kind = "error"
        /\ succInline[o]
        /\ succPc[o] = "forwarded"
        /\ cleanup_[o] = expectedCleanup(o)
        /\ fault[o] = "none"

\* C15: on the success path cleanup_ becomes nullptr before predOp_ is
\* destroyed and stays nullptr only until it is set to destructValues or to
\* deactivateSuccOpAndDestructValues; while it is nullptr the final receiver
\* is not notified, nothing can throw, and ~type cannot run; nullptr is never
\* called and the catch block never sees it.
C15_NullMarkerWindow ==
    \A o \in Ops :
        /\ cleanup_[o] = NullFn =>
               /\ predPc[o] \in
                      {"exchanged", "retired"} \cup
                      (IF MayThrow THEN {}
                                   ELSE {"guarded", "applied", "activated"})
               /\ received[o] = << >>
               /\ ~MayDestroy(o)
               /\ ~destroyed[o]
               /\ predPc[o] \in {"guarded", "applied"} =>
                      (~func_.throws /\ ~func_.connectThrows)
        /\ predPc[o] = "exchanged" =>
               (cleanup_[o] = NullFn /\ PredOpObj \in Live(o))
        /\ predPc[o] = "retired" => cleanup_[o] = NullFn
        /\ predPc[o] = "catch" => cleanup_[o] # NullFn
        /\ fault[o] = "none"

C15_Witness ==
    \E o \in Ops :
        /\ cleanup_[o] = NullFn
        /\ predPc[o] = "applied"
        /\ PredOpObj \in Range(dtorLog[o])

\* C16 (as claimed): when successor construction may throw, cleanup_ is
\* destructValues before predOp_ is destroyed: once the values are stored and
\* predOp_ is gone, cleanup_ already names the value tuple.
C16_ValuesOnlyBeforePredDestroyed ==
    \A o \in Ops :
        (/\ MayThrow
         /\ ~destroyed[o]
         /\ ValuesObj(ValuesShape) \in Live(o)
         /\ PredOpObj \notin Live(o)) =>
            cleanup_[o].fn \in
                {"destructValues", "deactivateSuccOpAndDestructValues"}

\* C16 (amended): when successor construction may throw, cleanup_ becomes
\* destructValues after the values are stored and after predOp_ has been
\* destroyed (cleanup_ is nullptr in between), and before the factory is
\* invoked.
C16_ValuesOnlyAfterPredDestroyed ==
    \A o \in Ops :
        /\ cleanup_[o].fn = "destructValues" =>
               /\ MayThrow
               /\ cleanup_[o].shape = ValuesShape
               /\ PredOpObj \notin Live(o)
               /\ ~destroyed[o] => ValuesObj(ValuesShape) \in Live(o)
               /\ predPc[o] \in {"guarded", "applied", "activated", "catch",
                                 "forwarded", "returned"}
        /\ (MayThrow /\ predPc[o] \in {"guarded", "applied", "activated"}) =>
               cleanup_[o] = DestructValuesFn(ValuesShape)
        /\ (MayThrow /\ funcCalls[o] # << >>) => cleanup_[o] # NullFn

C16_Witness ==
    \E o \in Ops :
        /\ predPc[o] = "guarded"
        /\ cleanup_[o].fn = "destructValues"
        /\ PredOpObj \in Range(dtorLog[o])
        /\ funcCalls[o] = << >>

\* the transitions of cleanup_ in construction order
Forward(f, g) ==
    \/ g = f
    \/ f = DeactivatePredOpFn /\ g = NullFn
    \/ f = NullFn /\ g.fn = "destructValues" /\ MayThrow
    \/ f = NullFn /\ g.fn = "deactivateSuccOpAndDestructValues" /\ ~MayThrow
    \/ /\ f.fn = "destructValues"
       /\ g = DeactivateSuccOpAndDestructValuesFn(f.shape)

\* C17: cleanup_ only moves forward along deactivatePredOp -> nullptr ->
\* destructValues (only when successor construction may throw) ->
\* deactivateSuccOpAndDestructValues; a failure leaves it at deactivatePredOp
\* or at destructValues; once it is deactivateSuccOpAndDestructValues it does
\* not change.
C17_CleanupMovesForward ==
    /\ [][\A o \in Ops : Forward(cleanup_[o], cleanup_[o]')]_vars
    /\ [](\A o \in Ops :
            (predPc[o] = "catch" \/ received[o] = <<UncaughtException>>) =>
                cleanup_[o].fn \in {"deactivatePredOp", "destructValues"})

C17_Witness ==
    \E o \in Ops :
        /\ MayThrow
        /\ cleanup_[o].fn = "deactivateSuccOpAndDestructValues"
        /\ succPc[o] = "returned"
        /\ destroyed[o]

\* C18: set_error and set_done of the predecessor receiver run with cleanup_ =
\* deactivatePredOp and change nothing but the final receiver's single
\* notification: cleanup_ stays, predOp_ stays live until ~type, and func_,
\* values_ and succOp_ are untouched.
C18_ErrorDoneFrame ==
    /\ [](pred_.signal.kind \in {"error", "done"} =>
            \A o \in Ops :
                /\ cleanup_[o] = DeactivatePredOpFn
                /\ ~destroyed[o] => Live(o) = {PredOpObj}
                /\ dtorLog[o] = IF destroyed[o] THEN <<PredOpObj>> ELSE << >>
                /\ ctorLog[o] = <<PredOpObj>>
                /\ funcCalls[o] = << >>
                /\ values_[o] = NoValues
                /\ successor[o] = NoSender
                /\ succOp_[o] = NoSender
                /\ fault[o] = "none")
    /\ [][\A o \in Ops :
            (predPc[o] = "started" /\ predPc[o]' = "forwarded") =>
                /\ Len(received[o]') = Len(received[o]) + 1
                /\ UNCHANGED <<cleanup_, exchanged, values_, successor, succOp_,
                               ctorLog, dtorLog, funcCalls, fault, succPc>>]_vars

C18_Witness ==
    /\ pred_.signal.kind = "error"
    /\ \E o \in Ops :
        /\ predPc[o] = "forwarded"
        /\ received[o] # << >>
        /\ ~destroyed[o]
        /\ PredOpObj \in Live(o)

\* C19: once an operation is started, if the predecessor eventually completes
\* and a started successor eventually completes, the final receiver is
\* eventually notified, and never more than once, on every path of the
\* handoff, including a throwing value copy and a throwing factory or connect.
C19_EventuallyNotified ==
    /\ \A o \in Ops : (startPc[o] # "idle") ~> (Len(received[o]) = 1)
    /\ [](\A o \in Ops : Len(received[o]) <= 1)

C19_Witness ==
    \E o \in Ops :
        /\ func_.throws \/ func_.connectThrows
        /\ startPc[o] = "returned"
        /\ predPc[o] = "returned"
        /\ received[o] = <<UncaughtException>>
        /\ ~destroyed[o]

\* C20: notifying the final receiver is the last thing done to an operation
\* state: after the notification only the pending calls return and ~type may
\* run once; cleanup_, values_, the union storage, the stored receiver and
\* the factory are not accessed again and nothing is constructed or started.
C20_NotificationIsLast ==
    /\ [](\A o \in Ops :
            received[o] # << >> =>
                /\ predPc[o] \in {"starting", "forwarded", "returned"}
                /\ succPc[o] \in {"none", "forwarded", "returned"})
    /\ [][\A o \in Ops :
            received[o] # << >> =>
                /\ cleanup_[o]' = cleanup_[o]
                /\ exchanged[o]' = exchanged[o]
                /\ values_[o]' = values_[o]
                /\ successor[o]' = successor[o]
                /\ succOp_[o]' = succOp_[o]
                /\ ctorLog[o]' = ctorLog[o]
                /\ funcCalls[o]' = funcCalls[o]
                /\ received[o]' = received[o]
                /\ fault[o]' = fault[o]
                /\ dtorLog[o]' # dtorLog[o] =>
                       (~destroyed[o] /\ destroyed[o]'
                        /\ dtorLog[o]' = dtorLog[o] \o Call(cleanup_[o]))]_vars

C20_Witness ==
    \E o \in Ops :
        /\ destroyed[o]
        /\ startPc[o] = "active"
        /\ succInline[o]
        /\ succPc[o] = "returned"
        /\ predPc[o] = "starting"
====
